---- MODULE Spec2Model ----
(***************************************************************************)
(* Model of kindred's LogisticRegressionWithThreshold (threshold-adjusted  *)
(* decision rule) and Parser (process-wide model cache, per-document       *)
(* parsing with entity-to-token alignment).                                *)
(*                                                                         *)
(* Probabilities and thresholds are fixed-point numbers: the integer p     *)
(* stands for p / Scale, so 0..Scale is the interval [0, 1].               *)
(***************************************************************************)
EXTENDS Integers, Sequences, FiniteSets, TLC

VARIABLES
    \* ---- LogisticRegressionWithThreshold ----
    trainY,       \* set of labels present in the training vector Y
    X,            \* the input row, as best_estimator_.predict_proba(X) sees it
    clf,          \* the classifier instance: exists, threshold, fitted, classes_
    ctor,         \* outcome of the most recent constructor call
    predictions,  \* the two most recent predict() results on X, newest last
    \* ---- Parser ----
    _models,      \* Parser._models: model name -> loaded language model object
    loadLog,      \* names passed to spacy.load, in call order (object id = index)
    parsers,      \* the Parser instances: model, nlp
    documents,    \* corpus.documents: pipeline tokens and entities of each
    sentences,    \* sentences[k]: the sentences appended to document k
    parsed,       \* corpus.parsed
    pc,           \* position of the parse call: idle, loop, done, failed
    d,            \* index of the document the loop of parse is at
    startCount,   \* number of sentences of each document when the call began
    calls,        \* number of parse calls begun
    succ          \* number of parse calls that returned normally

clfVars == <<trainY, X, clf, ctor, predictions>>
cacheVars == <<_models, loadLog, parsers>>
parseVars == <<documents, sentences, parsed, pc, d, startCount, calls, succ>>
vars == <<trainY, X, clf, ctor, predictions, _models, loadLog, parsers,
          documents, sentences, parsed, pc, d, startCount, calls, succ>>

\* ------------------------------------------------------------------------
\* Bounds
\* ------------------------------------------------------------------------
Half == 2
MaxLabel == 2
MaxParsers == 2
MaxDocs == 2
MaxCalls == 2
MaxPos == 2
MaxSpans == 2

Scale == 2 * Half

\* ------------------------------------------------------------------------
\* Helpers
\* ------------------------------------------------------------------------
Range(s) == {s[k] : k \in DOMAIN s}

RECURSIVE SortedSeq(_)
\* the elements of a finite set of integers in increasing order
SortedSeq(S) ==
    IF S = {} THEN <<>>
    ELSE LET m == CHOOSE x \in S : \A y \in S : x <= y
         IN <<m>> \o SortedSeq(S \ {m})

RECURSIVE Sum(_)
Sum(s) == IF s = <<>> THEN 0 ELSE Head(s) + Sum(Tail(s))

SeqsUpTo(S, n) == UNION {[1..k -> S] : k \in 0..n}

\* ------------------------------------------------------------------------
\* LogisticRegressionWithThreshold
\* ------------------------------------------------------------------------
\* np.argmax over one row: the 0-based index of the first maximal entry
argmax(v) ==
    (CHOOSE c \in 1..Len(v) :
        /\ \A k \in 1..Len(v) : v[k] <= v[c]
        /\ \A k \in 1..(c - 1) : v[k] < v[c]) - 1

\* predict with the comparison of the mask reversed
predictReversedMask(probs, threshold) ==
    LET masked == [c \in 1..Len(probs) |->
                      IF probs[c] > threshold THEN -Scale ELSE probs[c]]
        forced == [masked EXCEPT ![1] = -Half]
    IN argmax(forced)

\* predict without the override of column 0
predictNoOverride(probs, threshold) ==
    LET masked == [c \in 1..Len(probs) |->
                      IF probs[c] < threshold THEN -Scale ELSE probs[c]]
    IN argmax(masked)

\* predict on one row: probs[probs<threshold] = -1.0; probs[:,0] = -0.5; argmax
predict(probs, threshold) ==
    LET masked == [c \in 1..Len(probs) |->
                      IF probs[c] < threshold THEN -Scale ELSE probs[c]]
        forced == [masked EXCEPT ![1] = -Half]
    IN argmax(forced)

\* self.clf.classes_ after fit: the sorted distinct labels of Y
classesOf(Y) == SortedSeq(Y)

\* training label sets: at least two classes
LabelSets == {S \in SUBSET (0..MaxLabel) : Cardinality(S) >= 2}

\* rows of predict_proba with n columns: probabilities that sum to 1
Rows(n) == {r \in [1..n -> 0..Scale] : Sum(r) = Scale}

ThresholdArgs == (-1)..(Scale + 1)

NoClf == [exists |-> FALSE, threshold |-> 0, fitted |-> FALSE, classes_ |-> <<>>]
NoCtor == [called |-> FALSE, arg |-> 0, raised |-> FALSE]

\* __init__ whose assertion checks only the upper end
ConstructNoLowerBound(t) ==
    /\ IF t <= Scale
       THEN /\ clf' = [exists |-> TRUE, threshold |-> t, fitted |-> FALSE,
                       classes_ |-> <<>>]
            /\ ctor' = [called |-> TRUE, arg |-> t, raised |-> FALSE]
       ELSE /\ clf' = clf
            /\ ctor' = [called |-> TRUE, arg |-> t, raised |-> TRUE]
    /\ UNCHANGED <<trainY, X, predictions>>
    /\ UNCHANGED cacheVars
    /\ UNCHANGED parseVars

\* LogisticRegressionWithThreshold(threshold=t): the assertion, then the fields.
\* A new instance replaces the one the caller held.
Construct(t) ==
    /\ IF t >= 0 /\ t <= Scale
       THEN /\ clf' = [exists |-> TRUE, threshold |-> t, fitted |-> FALSE,
                       classes_ |-> <<>>]
            /\ ctor' = [called |-> TRUE, arg |-> t, raised |-> FALSE]
       ELSE /\ clf' = clf
            /\ ctor' = [called |-> TRUE, arg |-> t, raised |-> TRUE]
    /\ UNCHANGED <<trainY, X, predictions>>
    /\ UNCHANGED cacheVars
    /\ UNCHANGED parseVars

\* fit(X, Y): fits the grid search and records classes_
Fit ==
    /\ clf.exists
    /\ clf' = [clf EXCEPT !.fitted = TRUE, !.classes_ = classesOf(trainY)]
    /\ UNCHANGED <<trainY, X, ctor, predictions>>
    /\ UNCHANGED cacheVars
    /\ UNCHANGED parseVars

\* predict(X) on the fitted instance; the result is kept for inspection
Predict ==
    /\ clf.exists
    /\ clf.fitted
    /\ LET r == [threshold |-> clf.threshold,
                 prediction |-> predict(X, clf.threshold)]
       IN predictions' = IF Len(predictions) < 2
                         THEN Append(predictions, r)
                         ELSE Append(Tail(predictions), r)
    /\ UNCHANGED <<trainY, X, clf, ctor>>
    /\ UNCHANGED cacheVars
    /\ UNCHANGED parseVars

InitClfIdle ==
    /\ trainY = {0, 1}
    /\ X = <<Scale, 0>>
    /\ clf = NoClf
    /\ ctor = NoCtor
    /\ predictions = <<>>

InitParserIdle ==
    /\ _models = [m \in {} |-> 0]
    /\ loadLog = <<>>
    /\ parsers = <<>>
    /\ documents = <<>>
    /\ sentences = <<>>
    /\ parsed = FALSE
    /\ pc = "idle"
    /\ d = 0
    /\ startCount = <<>>
    /\ calls = 0
    /\ succ = 0

\* ------------------------------------------------------------------------
\* Parser: the process-wide model cache
\* ------------------------------------------------------------------------
ModelNames == {"en_core_web_sm", "de_core_news_sm"}

\* __init__ that loads the model on every construction
ParserConstructAlwaysLoad(model) ==
    /\ Len(parsers) < MaxParsers
    /\ _models' = [m \in (DOMAIN _models) \cup {model} |->
                      IF m = model THEN Len(loadLog) + 1 ELSE _models[m]]
    /\ loadLog' = Append(loadLog, model)
    /\ parsers' = Append(parsers, [model |-> model, nlp |-> _models'[model]])
    /\ UNCHANGED clfVars
    /\ UNCHANGED parseVars

\* Parser(model): load the model unless Parser._models holds it, then take
\* self.nlp from the cache. Each spacy.load returns a new object.
ParserConstruct(model) ==
    /\ Len(parsers) < MaxParsers
    /\ IF model \notin DOMAIN _models
       THEN /\ _models' = [m \in (DOMAIN _models) \cup {model} |->
                              IF m = model THEN Len(loadLog) + 1 ELSE _models[m]]
            /\ loadLog' = Append(loadLog, model)
       ELSE UNCHANGED <<_models, loadLog>>
    /\ parsers' = Append(parsers, [model |-> model, nlp |-> _models'[model]])
    /\ UNCHANGED clfVars
    /\ UNCHANGED parseVars

\* ------------------------------------------------------------------------
\* Parser.parse
\* ------------------------------------------------------------------------
\* A document is the pipeline's tokens for its text (character offsets
\* idx, idx+len(text)) and its entities (entityID, position: list of (a,b)).
\* Lemma, part of speech and dependency edges are carried through parse
\* unchanged from the pipeline and are left out.

\* self.nlp(text), returned whole as the only segmentation unit
_sentencesGenerator(doc) == <<doc.tokens>>

\* the interval index built from the first span of each entity only
denotationTreeFirstSpan(entities) ==
    {<<e.position[1][1], e.position[1][2], e.entityID>> :
        e \in {x \in Range(entities) :
                  /\ x.position # <<>>
                  /\ x.position[1][2] > x.position[1][1]}}

\* denotationTree: the set of intervals (a, b, entityID) with b > a
denotationTree(entities) ==
    UNION {{<<e.position[k][1], e.position[k][2], e.entityID>> :
               k \in {j \in DOMAIN e.position : e.position[j][2] > e.position[j][1]}} :
           e \in Range(entities)}

\* denotationTree[begin:end]: the stored intervals that overlap [begin, end)
overlap(tree, begin, end) ==
    IF begin >= end THEN {}
    ELSE {iv \in tree : iv[1] < end /\ iv[2] > begin}

RECURSIVE Repeat(_, _)
Repeat(x, n) == IF n = 0 THEN <<>> ELSE <<x>> \o Repeat(x, n - 1)

RECURSIVE LocsUpTo(_, _, _, _)
\* the list entityIDsToTokenLocs[entityID] after tokens 1..n were visited:
\* the 0-based token index is appended once per overlapping interval
LocsUpTo(entityID, tokens, tree, n) ==
    IF n = 0 THEN <<>>
    ELSE LET found == {iv \in overlap(tree, tokens[n].startPos, tokens[n].endPos) :
                          iv[3] = entityID}
         IN LocsUpTo(entityID, tokens, tree, n - 1)
                \o Repeat(n - 1, Cardinality(found))

\* entityIDsToTokenLocs: a defaultdict, so only the ids with an append are keys
entityIDsToTokenLocs(tokens, tree) ==
    LET ids == {iv[3] : iv \in tree}
        keys == {id \in ids : LocsUpTo(id, tokens, tree, Len(tokens)) # <<>>}
    IN [id \in keys |-> LocsUpTo(id, tokens, tree, Len(tokens))]

\* Sentence.addEntityAnnotation(e, entityLocs)
addEntityAnnotation(annotations, entityID, entityLocs) ==
    Append(annotations, [entityID |-> entityID, entityLocs |-> entityLocs])

RECURSIVE Annotate(_, _)
\* the loop over sorted(entityIDsToTokenLocs.items())
Annotate(ids, locs) ==
    IF ids = <<>> THEN <<>>
    ELSE LET rest == Annotate(SubSeq(ids, 1, Len(ids) - 1), locs)
             id == ids[Len(ids)]
         IN addEntityAnnotation(rest, id, locs[id])

\* the body of the loop over the segmentation units, for a unit with tokens
buildSentence(doc, unit) ==
    LET tokens == unit
        sentenceStart == tokens[1].startPos
        sentenceEnd == tokens[Len(tokens)].endPos
        locs == entityIDsToTokenLocs(tokens, denotationTree(doc.entities))
    IN [text |-> <<sentenceStart, sentenceEnd>>,
        tokens |-> tokens,
        entityAnnotations |-> Annotate(SortedSeq(DOMAIN locs), locs)]

\* Document.addSentence(sentence)
addSentence(docSentences, sentence) == Append(docSentences, sentence)

RECURSIVE addAll(_, _, _, _)
\* the sentences of a document after units 1..n went through the loop body
addAll(docSentences, doc, units, n) ==
    IF n = 0 THEN docSentences
    ELSE addSentence(addAll(docSentences, doc, units, n - 1),
                     buildSentence(doc, units[n]))

\* index of the first unit without tokens, 0 if every unit has one
firstEmpty(units) ==
    IF \E u \in DOMAIN units : units[u] = <<>>
    THEN CHOOSE u \in DOMAIN units :
            /\ units[u] = <<>>
            /\ \A v \in 1..(u - 1) : units[v] # <<>>
    ELSE 0

\* parse(corpus) is entered: the type assertion holds, the loop starts.
\* The pipeline output of a document does not depend on the call.
ParseBegin(limit) ==
    /\ pc \in {"idle", "done", "failed"}
    /\ parsers # <<>>
    /\ calls < limit
    /\ pc' = "loop"
    /\ d' = 1
    /\ startCount' = [k \in DOMAIN documents |-> Len(sentences[k])]
    /\ calls' = calls + 1
    /\ UNCHANGED <<documents, sentences, parsed, succ>>
    /\ UNCHANGED clfVars
    /\ UNCHANGED cacheVars

\* one iteration that leaves an already parsed corpus alone
ParseDocumentGuarded ==
    /\ pc = "loop"
    /\ d <= Len(documents)
    /\ firstEmpty(_sentencesGenerator(documents[d])) = 0
    /\ LET units == _sentencesGenerator(documents[d])
       IN sentences' = IF parsed THEN sentences
                       ELSE [sentences EXCEPT ![d] =
                                addAll(@, documents[d], units, Len(units))]
    /\ d' = d + 1
    /\ UNCHANGED <<documents, parsed, pc, startCount, calls, succ>>
    /\ UNCHANGED clfVars
    /\ UNCHANGED cacheVars

\* one iteration of the loop over corpus.documents, every unit having tokens
ParseDocument ==
    /\ pc = "loop"
    /\ d <= Len(documents)
    /\ firstEmpty(_sentencesGenerator(documents[d])) = 0
    /\ LET units == _sentencesGenerator(documents[d])
       IN sentences' = [sentences EXCEPT ![d] =
                           addAll(@, documents[d], units, Len(units))]
    /\ d' = d + 1
    /\ UNCHANGED <<documents, parsed, pc, startCount, calls, succ>>
    /\ UNCHANGED clfVars
    /\ UNCHANGED cacheVars

\* an iteration that skips a unit without tokens instead of failing
ParseFailSkip ==
    /\ pc = "loop"
    /\ d <= Len(documents)
    /\ firstEmpty(_sentencesGenerator(documents[d])) # 0
    /\ d' = d + 1
    /\ UNCHANGED <<documents, sentences, parsed, pc, startCount, calls, succ>>
    /\ UNCHANGED clfVars
    /\ UNCHANGED cacheVars

\* one iteration that meets a unit without tokens: tokens[0] raises IndexError
\* after the units before it were appended, and the call is left
ParseFail ==
    /\ pc = "loop"
    /\ d <= Len(documents)
    /\ firstEmpty(_sentencesGenerator(documents[d])) # 0
    /\ LET units == _sentencesGenerator(documents[d])
       IN sentences' = [sentences EXCEPT ![d] =
                           addAll(@, documents[d], units, firstEmpty(units) - 1)]
    /\ pc' = "failed"
    /\ UNCHANGED <<documents, parsed, d, startCount, calls, succ>>
    /\ UNCHANGED clfVars
    /\ UNCHANGED cacheVars

\* the flag is set although documents are left in the loop
ParseFinishEarly ==
    /\ pc = "loop"
    /\ parsed' = TRUE
    /\ pc' = "done"
    /\ succ' = succ + 1
    /\ UNCHANGED <<documents, sentences, d, startCount, calls>>
    /\ UNCHANGED clfVars
    /\ UNCHANGED cacheVars

\* the loop is over: corpus.parsed = True and the call returns
ParseFinish ==
    /\ pc = "loop"
    /\ d > Len(documents)
    /\ parsed' = TRUE
    /\ pc' = "done"
    /\ succ' = succ + 1
    /\ UNCHANGED <<documents, sentences, d, startCount, calls>>
    /\ UNCHANGED clfVars
    /\ UNCHANGED cacheVars

\* ------------------------------------------------------------------------
\* Inputs
\* ------------------------------------------------------------------------
Tok(a, b) == [startPos |-> a, endPos |-> b]

\* pipeline outputs over a text of maxPos characters: tokens are non-empty,
\* in text order and do not overlap; an empty text has no token
TokenSeqs(maxPos) ==
    {s \in SeqsUpTo({t \in {Tok(a, b) : a \in 0..maxPos, b \in 0..maxPos} :
                        t.startPos < t.endPos}, maxPos) :
        \A k \in 1..(Len(s) - 1) : s[k].endPos <= s[k + 1].startPos}

\* entity spans as an annotation file may give them: also empty and inverted
Spans(maxPos) == (0..maxPos) \X (0..maxPos)

\* documents with at most one entity of up to maxSpans spans
AlignDocs(maxPos, maxSpans) ==
    {[tokens |-> t, entities |-> es] :
        t \in TokenSeqs(maxPos),
        es \in {<<>>} \cup {<<[entityID |-> 1, position |-> p]>> :
                               p \in SeqsUpTo(Spans(maxPos), maxSpans)}}

DocEmpty == [tokens |-> <<>>, entities |-> <<>>]
DocPlain == [tokens |-> <<Tok(0, 2), Tok(2, 3)>>, entities |-> <<>>]
\* "Erlotinib is a common treatment for lung and unknown cancers", the cancer
\* entity listed first with its two mentions, the drug entity second
DocAnnotated ==
    [tokens |-> <<Tok(0, 9), Tok(10, 12), Tok(13, 14), Tok(15, 21), Tok(22, 31),
                  Tok(32, 35), Tok(36, 40), Tok(41, 44), Tok(45, 52), Tok(53, 60)>>,
     entities |-> <<[entityID |-> 2, position |-> <<<<36, 40>>, <<53, 60>>>>],
                    [entityID |-> 1, position |-> <<<<0, 9>>>>]>>]
CorpusDocs == {DocEmpty, DocPlain, DocAnnotated}

InitCorpus(docs) ==
    /\ documents \in docs
    /\ sentences = [k \in DOMAIN documents |-> <<>>]
    /\ parsed = FALSE
    /\ pc = "idle"
    /\ d = 0
    /\ startCount = [k \in DOMAIN documents |-> 0]
    /\ calls = 0
    /\ succ = 0

\* a corpus of up to MaxDocs documents, no Parser constructed yet
Init ==
    /\ InitClfIdle
    /\ _models = [m \in {} |-> 0]
    /\ loadLog = <<>>
    /\ parsers = <<>>
    /\ InitCorpus(SeqsUpTo(CorpusDocs, MaxDocs))

Next ==
    \/ \E model \in ModelNames : ParserConstruct(model)
    \/ ParseBegin(MaxCalls)
    \/ ParseDocument
    \/ ParseFail
    \/ ParseFinish

Spec == Init /\ [][Next]_vars

\* a corpus of one document, after Parser() with the default model
InitAlign ==
    /\ InitClfIdle
    /\ _models = [m \in {"en_core_web_sm"} |-> 1]
    /\ loadLog = <<"en_core_web_sm">>
    /\ parsers = <<[model |-> "en_core_web_sm", nlp |-> 1]>>
    /\ InitCorpus({<<doc>> : doc \in AlignDocs(MaxPos, MaxSpans) \cup {DocAnnotated}})

NextAlign ==
    \/ ParseBegin(1)
    \/ ParseDocument
    \/ ParseFail
    \/ ParseFinish

SpecAlign == InitAlign /\ [][NextAlign]_vars

InitClf ==
    /\ trainY \in LabelSets
    /\ X \in Rows(Cardinality(trainY))
    /\ clf = NoClf
    /\ ctor = NoCtor
    /\ predictions = <<>>
    /\ InitParserIdle

NextClf ==
    \/ \E t \in ThresholdArgs : Construct(t)
    \/ Fit
    \/ Predict

SpecClf == InitClf /\ [][NextClf]_vars

\* ------------------------------------------------------------------------
\* Properties of LogisticRegressionWithThreshold (SpecClf)
\* ------------------------------------------------------------------------
\* the 1-based columns of the non-zero classes
NonZero == 2..Len(X)

\* C1: predict returns class 0 exactly when every non-zero class's probability
\* is below the threshold, and otherwise a non-zero class whose probability is
\* at least the threshold and maximal among those (classes by column index).
C1_DecisionRule ==
    \A k \in DOMAIN predictions :
        LET t == predictions[k].threshold
            p == predictions[k].prediction
        IN /\ (p = 0) <=> (\A c \in NonZero : X[c] < t)
           /\ p # 0 => /\ (p + 1) \in NonZero
                       /\ X[p + 1] >= t
                       /\ \A c \in NonZero : X[c] >= t => X[c] <= X[p + 1]

\* a non-zero class is returned at a probability equal to the threshold
\* although class 0 has the largest probability of the row
C1_Witness ==
    \E k \in DOMAIN predictions :
        /\ predictions[k].prediction # 0
        /\ X[predictions[k].prediction + 1] = predictions[k].threshold
        /\ \A c \in NonZero : X[1] > X[c]

\* C2: the value predict returns is a member of classes_, the label of the
\* selected probability column, for any label set seen by fit.
C2_ReturnsLabel ==
    \A k \in DOMAIN predictions :
        LET col == predict(X, predictions[k].threshold)
        IN /\ predictions[k].prediction \in Range(classesOf(trainY))
           /\ predictions[k].prediction = classesOf(trainY)[col + 1]

\* C3: for thresholds t1 <= t2 on the same fitted model and row, the
\* prediction under t2 is the prediction under t1 or class 0.
C3_Monotone ==
    \A i \in DOMAIN predictions : \A j \in DOMAIN predictions :
        predictions[i].threshold <= predictions[j].threshold
            => predictions[j].prediction \in {predictions[i].prediction, 0}

\* the same row predicted under two thresholds, the higher one giving class 0
\* where the lower one gave a non-zero class
C3_Witness ==
    \E i \in DOMAIN predictions : \E j \in DOMAIN predictions :
        /\ predictions[i].threshold < predictions[j].threshold
        /\ predictions[i].prediction # 0
        /\ predictions[j].prediction = 0

\* C4: construction succeeds exactly for 0 <= t <= 1; a rejected construction
\* creates no instance, so every instance has its threshold in [0, 1].
C4_ThresholdRange ==
    /\ [](/\ clf.exists => (clf.threshold >= 0 /\ clf.threshold <= Scale)
          /\ ctor.called => (ctor.raised <=> (ctor.arg < 0 \/ ctor.arg > Scale))
          /\ (ctor.called /\ ~ctor.raised)
                => (clf.exists /\ clf.threshold = ctor.arg))
    /\ [][ctor'.raised => (clf'.exists = clf.exists
                           /\ clf'.threshold = clf.threshold)]_vars

\* a construction was rejected while an instance with threshold 1 exists
C4_Witness ==
    /\ ctor.called
    /\ ctor.raised
    /\ clf.exists
    /\ clf.threshold = Scale

\* ------------------------------------------------------------------------
\* Properties of Parser (Spec, SpecAlign)
\* ------------------------------------------------------------------------
\* the token indices attached to sentence s for the entity with this id
AttachedLocs(s, entityID) ==
    UNION {Range(a.entityLocs) :
              a \in {x \in Range(s.entityAnnotations) : x.entityID = entityID}}

\* some span [a, b) of e with b > a overlaps the token's [startPos, endPos)
SpanOverlaps(e, tok) ==
    \E k \in DOMAIN e.position :
        /\ e.position[k][2] > e.position[k][1]
        /\ e.position[k][1] < tok.endPos
        /\ e.position[k][2] > tok.startPos

\* C5: token index i is in the list attached for entity e exactly when a
\* non-empty span of e overlaps token i; an entity without such a span is
\* attached to no sentence and raises no error.
C5_Alignment ==
    /\ \A k \in DOMAIN documents : \A n \in DOMAIN sentences[k] :
          LET s == sentences[k][n]
          IN /\ \A e \in Range(documents[k].entities) :
                   /\ \A i \in DOMAIN s.tokens :
                         ((i - 1) \in AttachedLocs(s, e.entityID))
                             <=> SpanOverlaps(e, s.tokens[i])
                   /\ (\A j \in DOMAIN e.position :
                          e.position[j][2] <= e.position[j][1])
                        => \A a \in Range(s.entityAnnotations) :
                               a.entityID # e.entityID
             /\ \A a \in Range(s.entityAnnotations) :
                   /\ a.entityLocs # <<>>
                   /\ \E e \in Range(documents[k].entities) :
                         e.entityID = a.entityID
    /\ pc = "failed" => documents[d].tokens = <<>>

\* a parsed sentence where the entity with two disjoint mentions is aligned
\* to token indices 6 and 9
C5_Witness ==
    /\ pc = "done"
    /\ \E k \in DOMAIN documents : \E n \in DOMAIN sentences[k] :
          \E a \in Range(sentences[k][n].entityAnnotations) :
             /\ a.entityID = 2
             /\ a.entityLocs = <<6, 9>>

\* C6: a model name is loaded at most once, every Parser of that name holds
\* the cached object, and no construction removes or replaces a cache entry.
C6_ModelCache ==
    /\ [](/\ \A i \in DOMAIN loadLog : \A j \in DOMAIN loadLog :
                loadLog[i] = loadLog[j] => i = j
          /\ \A k \in DOMAIN parsers :
                /\ parsers[k].model \in DOMAIN _models
                /\ parsers[k].nlp = _models[parsers[k].model]
          /\ \A m \in DOMAIN _models : loadLog[_models[m]] = m)
    /\ [][\A m \in DOMAIN _models :
              m \in DOMAIN _models' /\ _models'[m] = _models[m]]_vars

\* two Parsers were constructed with the same model name
C6_Witness ==
    /\ Len(parsers) >= 2
    /\ parsers[1].model = parsers[2].model
    /\ parsers[1].nlp = parsers[2].nlp

\* every document of the corpus got one more sentence than at the call's start
AllAppended ==
    \A k \in DOMAIN documents : Len(sentences[k]) = startCount[k] + 1

\* C7: the flag is set only by the step that ends the loop, after every
\* document got its sentence in iteration order; also with zero documents.
C7_FlagAfterLoop ==
    /\ [](/\ pc = "loop" =>
                \A k \in DOMAIN documents :
                    Len(sentences[k]) = startCount[k] + (IF k < d THEN 1 ELSE 0)
          /\ pc = "done" => parsed)
    /\ [][(parsed' # parsed \/ (pc = "loop" /\ pc' = "done"))
             => (parsed' /\ pc = "loop" /\ pc' = "done"
                 /\ d > Len(documents) /\ AllAppended /\ sentences' = sentences)]_vars

\* the first call on a corpus of two documents has returned
C7_Witness ==
    /\ pc = "done"
    /\ parsed
    /\ calls = 1
    /\ Len(documents) >= 2
    /\ AllAppended

\* C8: a document without tokens makes parse fail there: nothing is appended
\* to it or to later documents, the flag is not set, and the sentences the
\* call appended to earlier documents stay.
C8_ZeroTokenFails ==
    /\ pc = "failed" =>
          /\ d \in DOMAIN documents
          /\ documents[d].tokens = <<>>
          /\ \A k \in DOMAIN documents :
                Len(sentences[k]) = startCount[k] + (IF k < d THEN 1 ELSE 0)
          /\ ~parsed
    /\ pc = "done" => \A k \in DOMAIN documents : documents[k].tokens # <<>>

\* parse failed at the second document after appending to the first
C8_Witness ==
    /\ pc = "failed"
    /\ d = 2
    /\ Len(sentences[1]) = startCount[1] + 1
    /\ Len(sentences[2]) = startCount[2]

\* C9: every token-index list attached to a sentence is strictly increasing.
C9_StrictlyIncreasing ==
    \A k \in DOMAIN documents : \A n \in DOMAIN sentences[k] :
        \A a \in Range(sentences[k][n].entityAnnotations) :
            \A i \in 1..(Len(a.entityLocs) - 1) :
                a.entityLocs[i] < a.entityLocs[i + 1]

====
